---- MODULE Spec2Model ----
(***************************************************************************)
(* telekick: an inactivity bot.  Two goroutines of one process share one   *)
(* MongoDB collection: Record() consumes chat updates and upserts/removes  *)
(* per-user last_message documents; WatchKick() periodically counts the    *)
(* recently active users, fetches the stale ones and bans each of them.    *)
(* Time is counted in whole units of the scan interval's scale; every      *)
(* timestamp comparison of the code is kept as written.                    *)
(***************************************************************************)
EXTENDS Integers, Sequences, FiniteSets, TLC

\* ------------------------------------------------------------------ bounds
MaxTime == 2        \* the wall clock runs from 0 to MaxTime

\* --------------------------------------------------------- program values
Interval == 1       \* interval := time.Hour, in clock units
Duration == 1       \* DURATION, in clock units
Nil == 0            \* a nil *telebot.User / absent id (real ids are non-zero)
Members == {1, 2}   \* user ids seen in the chat
TelegramChat == 10  \* TELEGRAM_CHAT
MigratedChats == {20}  \* chat ids a migration directive can name
Forever == "forever"   \* telebot.Forever(), the until_date of a permanent ban
Texts == {"hi", "/when", "q"}   \* Message.Text of an ordinary message

VARIABLES
    now,        \* time.Now().Unix()
    alive,      \* FALSE once log.Fatalf has ended the process
    chat,       \* watcher.chat.ID
    duration,   \* watcher.duration
    store,      \* watcher.store: the documents of the collection, in natural order
    pcRecord,   \* Record(): "setcommands" | "range"
    pcKick,     \* WatchKick(): "count" | "find" | "loop", or asleep: "skip"
                \* (the Sleep of a skipped cycle) | "sleep" (the Sleep after the loop)
    since,      \* WatchKick's since
    users,      \* WatchKick's users: the UserID of each fetched document (their
                \* LastMessage is never read)
    idx,        \* position of the range loop in users
    err,        \* WatchKick's err
    wake,       \* time at which time.Sleep(interval) returns
    kicked,     \* user ids ban was invoked for in the current cycle, in order
    lastBan,    \* the most recent ban invocation: its Raw responses, requests and result
    replied,    \* whether handle answered the latest update through bot.Send
    logged,     \* the error Record logged for the latest update (ErrNil: none)
    obs,        \* per member: what has been observed of its leaving
    goneAtStart \* members whose latest event, when the current cycle started, was
                \* a leave, and of whom no event was handled since

vars == << now, alive, chat, duration, store, pcRecord,
           pcKick, since, users, idx, err, wake, kicked, lastBan,
           replied, logged, obs, goneAtStart >>

\* ------------------------------------------------------------- the store
Range(s) == { s[i] : i \in DOMAIN s }

Doc(user, t) == [UserID |-> user, LastMessage |-> t]

\* indexes of the documents matching bson.M{"user_id": user}
Matching(s, user) == { i \in DOMAIN s : s[i].UserID = user }

First(S) == CHOOSE i \in S : \A j \in S : i <= j

\* store.Upsert(selector, $set): update the first match, insert when none
UpsertMutInsert(s, user, t) == Append(s, Doc(user, t))

Upsert(s, user, t) ==
    IF Matching(s, user) = {}
    THEN Append(s, Doc(user, t))
    ELSE [s EXCEPT ![First(Matching(s, user))] = Doc(user, t)]

\* store.Remove(selector): delete the first match
Remove(s, user) ==
    LET k == First(Matching(s, user))
    IN SubSeq(s, 1, k - 1) \o SubSeq(s, k + 1, Len(s))

\* store.Find({"last_message": {"$gt": threshold}}).Count()
Count(s, threshold) ==
    Cardinality({ i \in DOMAIN s : s[i].LastMessage > threshold })

\* store.Find({"last_message": {"$lt": threshold}}).All(&users)
IsStale(d, threshold) == d.LastMessage < threshold

\* a find that returns every document
FindStaleMutAll(s, threshold) == s

FindStaleMutLte(s, threshold) ==
    SelectSeq(s, LAMBDA d : d.LastMessage <= threshold)

FindStale(s, threshold) == SelectSeq(s, LAMBDA d : IsStale(d, threshold))

\* time.Now().Add(watcher.duration * -1).Unix()
Threshold(t, d) == t - d

\* ------------------------------------------------------------ the updates
\* telebot.Update as handle reads it: Message (nil or not), Message.Text,
\* Message.UserLeft, Message.UserJoined, Message.Sender
Upd(m, text, left, joined, sender) ==
    [Message |-> m, Text |-> text, UserLeft |-> left,
     UserJoined |-> joined, Sender |-> sender]

\* updates the poller delivers: an update without message, the service
\* messages (left / joined, sent by some member, without text), and
\* ordinary messages (of any text) with or without a sender
Updates ==
    {Upd(FALSE, "", Nil, Nil, Nil)}
    \cup { Upd(TRUE, "", u, Nil, s) : u \in Members, s \in Members }
    \cup { Upd(TRUE, "", Nil, u, s) : u \in Members, s \in Members }
    \cup { Upd(TRUE, x, Nil, Nil, s) : x \in Texts, s \in Members \cup {Nil} }

\* errors handle can return
ErrNil == "nil"
ErrNotFound == "remove user: not found"   \* mgo.ErrNotFound, wrapped
ErrRemove == "remove user"                \* any other failure of store.Remove
ErrUpdate == "update user"                \* failure of store.Upsert
ErrList == "find all"                     \* listTimestamps: store.Find failed
ErrSend == "send"                         \* bot.Send failed

\* what a call of handle leaves: the collection, the returned error, and
\* whether bot.Send delivered an answer
Result(s, e) == [store |-> s, err |-> e, sent |-> FALSE]

Answer(s, e) == [store |-> s, err |-> e, sent |-> e = ErrNil]

\* updateLastMessage(user) at time t; storeFails: store.Upsert returns an error
UpdateLastMessage(s, t, user, storeFails) ==
    IF storeFails THEN Result(s, ErrUpdate) ELSE Result(Upsert(s, user, t), ErrNil)

\* a handle that removes the record of the sender of the member-left
\* message instead of the record of the member who left
handleMutRemoveSender(s, t, update, storeFails, sendFails) ==
    IF ~update.Message THEN Result(s, ErrNil)
    ELSE IF update.Text = "/when" \/ update.Text = "q"
    THEN IF storeFails THEN Result(s, ErrList)
         ELSE IF sendFails THEN Answer(s, ErrSend) ELSE Answer(s, ErrNil)
    ELSE IF update.UserLeft # Nil
    THEN IF storeFails THEN Result(s, ErrRemove)
         ELSE IF Matching(s, update.Sender) = {} THEN Result(s, ErrNotFound)
         ELSE Result(Remove(s, update.Sender), ErrNil)
    ELSE IF update.UserJoined # Nil
    THEN UpdateLastMessage(s, t, update.UserJoined, storeFails)
    ELSE IF update.Sender = Nil THEN Result(s, ErrNil)
    ELSE UpdateLastMessage(s, t, update.Sender, storeFails)

\* handle(update) at time t; storeFails: the store call of this update
\* returns an error; sendFails: bot.Send returns an error
handle(s, t, update, storeFails, sendFails) ==
    IF ~update.Message THEN Result(s, ErrNil)
    ELSE IF update.Text = "/when" \/ update.Text = "q"
    THEN IF storeFails THEN Result(s, ErrList)
         ELSE IF sendFails THEN Answer(s, ErrSend) ELSE Answer(s, ErrNil)
    ELSE IF update.UserLeft # Nil
    THEN IF storeFails THEN Result(s, ErrRemove)
         ELSE IF Matching(s, update.UserLeft) = {} THEN Result(s, ErrNotFound)
         ELSE Result(Remove(s, update.UserLeft), ErrNil)
    ELSE IF update.UserJoined # Nil
    THEN UpdateLastMessage(s, t, update.UserJoined, storeFails)
    ELSE IF update.Sender = Nil THEN Result(s, ErrNil)
    ELSE UpdateLastMessage(s, t, update.Sender, storeFails)

\* the update is answered with the list of timestamps
IsCommand(update) ==
    update.Message /\ (update.Text = "/when" \/ update.Text = "q")

\* handle(update) makes a call to the store (Find, Remove or Upsert)
CallsStore(update) ==
    update.Message /\ (IsCommand(update) \/ update.UserLeft # Nil
                       \/ update.UserJoined # Nil \/ update.Sender # Nil)

\* what an update is, told from its payload alone: whose event, of what kind
Kind(update) ==
    IF ~update.Message THEN "none"
    ELSE IF update.UserLeft # Nil THEN "left"
    ELSE IF update.UserJoined # Nil THEN "join"
    ELSE IF update.Sender # Nil THEN "msg"
    ELSE "none"

Subject(update) ==
    IF Kind(update) = "left" THEN update.UserLeft
    ELSE IF Kind(update) = "join" THEN update.UserJoined
    ELSE IF Kind(update) = "msg" THEN update.Sender
    ELSE Nil

\* what has been observed of a member's leaving: never a leave; the latest
\* event is a leave whose handling left no record / failed in the store; a
\* leave and some event after it
Observe(was, update, e) ==
    IF Kind(update) = "left"
    THEN IF e \in {ErrNil, ErrNotFound} THEN "gone" ELSE "leave failed"
    ELSE IF was = "never" THEN "never" ELSE "back"

\* ------------------------------------------------------- the ban request
\* strconv.FormatInt(n, 10) / fmt.Sprint(n) / Chat.Recipient(): decimal text
FormatInt(n) == ToString(n)

\* params of bot.Raw("banChatMember", params)
Params(chatID, user) ==
    [chat_id |-> FormatInt(chatID), user_id |-> FormatInt(user),
     until_date |-> Forever]

\* response bodies of bot.Raw: not JSON at all (or empty), JSON without
\* parameters.migrate_to_chat_id, JSON with that field
Payload(valid, present, id) == [valid |-> valid, present |-> present, id |-> id]

Payloads ==
    {Payload(FALSE, FALSE, 0), Payload(TRUE, FALSE, 0)}
    \cup { Payload(TRUE, TRUE, x) : x \in {0} \cup MigratedChats }

\* (data, err) of bot.Raw: err = nil with a result body, or err # nil with any body
RawResponses ==
    {[err |-> FALSE, data |-> Payload(TRUE, FALSE, 0)]}
    \cup { [err |-> TRUE, data |-> d] : d \in Payloads }

\* json.Unmarshal(data, &migrations): an error, or the struct with the field
\* decoded (its zero value when the field is absent)
Unmarshal(data) ==
    IF ~data.valid THEN [err |-> TRUE, MigrateToChatID |-> 0]
    ELSE [err |-> FALSE,
          MigrateToChatID |-> IF data.present THEN data.id ELSE 0]

\* errors ban can return: nil, the first Raw call's error, the second's
BanNil == "nil"
BanErr1 == "primary request failed"
BanErr2 == "redirected request failed"

Banned(user, raw1, raw2err, requests, result) ==
    [user |-> user, raw1 |-> raw1, raw2err |-> raw2err,
     requests |-> requests, result |-> result]

NoBan == Banned(Nil, [err |-> FALSE, data |-> Payload(TRUE, FALSE, 0)], FALSE,
                << >>, BanNil)

\* a retry that targets the configured chat again instead of the migrated one
banMutSameChat(chatID, user, raw1, raw2err) ==
    IF raw1.err /\ ~Unmarshal(raw1.data).err
       /\ Unmarshal(raw1.data).MigrateToChatID # 0
    THEN Banned(user, raw1, raw2err,
                << Params(chatID, user), Params(chatID, user) >>,
                IF raw2err THEN BanErr2 ELSE BanNil)
    ELSE Banned(user, raw1, raw2err, << Params(chatID, user) >>,
                IF raw1.err /\ Unmarshal(raw1.data).err THEN BanErr1 ELSE BanNil)

\* ban(user) with watcher.chat.ID = chatID; raw1: the response of the first
\* Raw call, raw2err: whether a second Raw call returns an error
ban(chatID, user, raw1, raw2err) ==
    LET first == << Params(chatID, user) >>
        migrations == Unmarshal(raw1.data)
    IN  IF raw1.err
        THEN IF migrations.err
             THEN Banned(user, raw1, raw2err, first, BanErr1)
             ELSE IF migrations.MigrateToChatID # 0
             THEN Banned(user, raw1, raw2err,
                         Append(first, Params(migrations.MigrateToChatID, user)),
                         IF raw2err THEN BanErr2 ELSE BanNil)
             ELSE Banned(user, raw1, raw2err, first, BanNil)
        ELSE Banned(user, raw1, raw2err, first, BanNil)

\* ------------------------------------------------------------------ Init
\* main() has read the configuration, connected, built the Watcher and
\* started both goroutines; the collection is the one of a fresh deployment
Init ==
    /\ now = 0
    /\ alive = TRUE
    /\ chat = TelegramChat
    /\ duration = Duration
    /\ store = << >>
    /\ pcRecord = "setcommands"
    /\ pcKick = "count"
    /\ since = 0
    /\ users = << >>
    /\ idx = 1
    /\ err = "nil"
    /\ wake = 0
    /\ kicked = << >>
    /\ lastBan = NoBan
    /\ replied = FALSE
    /\ logged = "nil"
    /\ obs = [m \in Members |-> "never"]
    /\ goneAtStart = {}

recordVars == << pcRecord, replied, logged, obs >>
kickVars == << pcKick, since, users, idx, err, wake, kicked, lastBan >>

\* the wall clock advances
Tick ==
    /\ alive
    /\ now < MaxTime
    /\ now' = now + 1
    /\ UNCHANGED << alive, chat, duration, store, recordVars, kickVars,
                    goneAtStart >>

\* ---------------------------------------------------------------- Record
\* Record(): bot.SetCommands, log.Fatalf when it fails
RecordSetCommands ==
    /\ alive
    /\ pcRecord = "setcommands"
    /\ \E fails \in BOOLEAN :
         IF fails
         THEN alive' = FALSE /\ pcRecord' = pcRecord
         ELSE alive' = alive /\ pcRecord' = "range"
    /\ UNCHANGED << now, chat, duration, store, replied, logged, obs,
                    kickVars, goneAtStart >>

\* what Record() does with the error handle returned: nothing (it is not
\* even assigned, so no log entry is made of it), the loop goes on to the
\* next update
AfterHandleMutFatal(e) == [alive |-> e = ErrNil, pc |-> "range", log |-> ErrNil]

AfterHandle(e) == [alive |-> TRUE, pc |-> "range", log |-> ErrNil]

\* Record(): one iteration of `for update := range updates`, in which the
\* store call fails or not and bot.Send fails or not
RecordHandleWith(update, storeFails, sendFails) ==
    /\ alive
    /\ pcRecord = "range"
    /\ storeFails => CallsStore(update)
    /\ sendFails => (IsCommand(update) /\ ~storeFails)
    /\ LET r == handle(store, now, update, storeFails, sendFails)
           m == Subject(update)
       IN  /\ store' = r.store
           /\ replied' = r.sent
           /\ alive' = AfterHandle(r.err).alive
           /\ pcRecord' = AfterHandle(r.err).pc
           /\ logged' = AfterHandle(r.err).log
           /\ obs' = IF m = Nil THEN obs
                     ELSE [obs EXCEPT ![m] = Observe(obs[m], update, r.err)]
           /\ goneAtStart' = goneAtStart \ {m}
    /\ UNCHANGED << now, chat, duration, kickVars >>

RecordHandle(update) ==
    \E storeFails \in BOOLEAN, sendFails \in BOOLEAN :
        RecordHandleWith(update, storeFails, sendFails)

\* ------------------------------------------------------------- WatchKick
ErrQuery == "query failed"

\* `if since == 0`: the cycle is skipped
NoMessagesSinceMutNever(n) == n < 0

NoMessagesSince(n) == n = 0

\* top of the loop: the Count query, log.Fatalf when it fails, the guard
\* and, when it skips the cycle, time.Sleep(interval)
KickCount ==
    /\ alive
    /\ pcKick = "count"
    /\ \E queryFails \in BOOLEAN :
         IF queryFails
         THEN /\ alive' = FALSE
              /\ UNCHANGED << kickVars, goneAtStart >>
         ELSE /\ alive' = alive
              /\ since' = Count(store, Threshold(now, duration))
              /\ err' = "nil"
              /\ UNCHANGED << users, idx, kicked, lastBan >>
              /\ IF NoMessagesSince(since')
                 THEN /\ pcKick' = "skip"
                      /\ wake' = now + Interval
                      /\ goneAtStart' = {}
                 ELSE /\ pcKick' = "find"
                      /\ wake' = wake
                      /\ goneAtStart' =
                            { m \in Members :
                                obs[m] \in {"gone", "leave failed"} }
    /\ UNCHANGED << now, chat, duration, store, recordVars >>

RECURSIVE UserIDs(_)
UserIDs(docs) ==
    IF docs = << >> THEN << >>
    ELSE << Head(docs).UserID >> \o UserIDs(Tail(docs))

\* prefixes of a sequence: what All(&users) has filled in when it fails
Prefixes(s) == { SubSeq(s, 1, n) : n \in 0..Len(s) }

\* the Find(...).All(&users) query; its error is assigned and never read
\* (since is not read after the guard)
KickFind ==
    /\ alive
    /\ pcKick = "find"
    /\ \E queryFails \in BOOLEAN :
         LET found == UserIDs(FindStale(store, Threshold(now, duration)))
         IN  IF queryFails
             THEN err' = ErrQuery /\ users' \in Prefixes(found)
             ELSE err' = "nil" /\ users' = found
    /\ pcKick' = "loop"
    /\ idx' = 1
    /\ since' = 0
    /\ UNCHANGED << now, alive, chat, duration, store, recordVars,
                    wake, kicked, lastBan, goneAtStart >>

\* what the range loop does with the error ban returned: log it and go on
LoopAfterBanMutBreak(e) == IF e = BanNil THEN "loop" ELSE "sleep"

LoopAfterBan(e) == "loop"

\* a loop that looks the candidate up again and bans it only when its record
\* is still stale
KickBanMutRecheck ==
    /\ alive
    /\ pcKick = "loop"
    /\ idx <= Len(users)
    /\ users[idx] \in Range(UserIDs(FindStale(store, Threshold(now, duration))))
    /\ \E raw1 \in RawResponses, raw2err \in BOOLEAN :
         /\ lastBan' = ban(chat, users[idx], raw1, raw2err)
         /\ raw2err => Len(lastBan'.requests) > 1
         /\ err' = lastBan'.result
    /\ kicked' = Append(kicked, users[idx])
    /\ idx' = idx + 1
    /\ pcKick' = LoopAfterBan(err')
    /\ wake' = IF pcKick' = "sleep" THEN now + Interval ELSE wake
    /\ UNCHANGED << now, alive, chat, duration, store, recordVars,
                    since, users, goneAtStart >>

\* a ban that remembers the chat id it was redirected to
KickBanMutRemember ==
    /\ alive
    /\ pcKick = "loop"
    /\ idx <= Len(users)
    /\ \E raw1 \in RawResponses, raw2err \in BOOLEAN :
         /\ lastBan' = ban(chat, users[idx], raw1, raw2err)
         /\ raw2err => Len(lastBan'.requests) > 1
         /\ err' = lastBan'.result
         /\ chat' = IF Len(lastBan'.requests) > 1
                    THEN Unmarshal(raw1.data).MigrateToChatID ELSE chat
    /\ kicked' = Append(kicked, users[idx])
    /\ idx' = idx + 1
    /\ pcKick' = LoopAfterBan(err')
    /\ wake' = IF pcKick' = "sleep" THEN now + Interval ELSE wake
    /\ UNCHANGED << now, alive, duration, store, recordVars,
                    since, users, goneAtStart >>

\* a loop that deletes the record of the user it banned
KickBanMutRemoves ==
    /\ alive
    /\ pcKick = "loop"
    /\ idx <= Len(users)
    /\ \E raw1 \in RawResponses, raw2err \in BOOLEAN :
         /\ lastBan' = ban(chat, users[idx], raw1, raw2err)
         /\ raw2err => Len(lastBan'.requests) > 1
         /\ err' = lastBan'.result
    /\ store' = IF err' = BanNil /\ Matching(store, users[idx]) # {}
                THEN Remove(store, users[idx]) ELSE store
    /\ kicked' = Append(kicked, users[idx])
    /\ idx' = idx + 1
    /\ pcKick' = LoopAfterBan(err')
    /\ wake' = IF pcKick' = "sleep" THEN now + Interval ELSE wake
    /\ UNCHANGED << now, alive, chat, duration, recordVars,
                    since, users, goneAtStart >>

\* one iteration of `for _, user := range users`: ban(user.UserID), its
\* error logged
KickBan ==
    /\ alive
    /\ pcKick = "loop"
    /\ idx <= Len(users)
    /\ \E raw1 \in RawResponses, raw2err \in BOOLEAN :
         /\ lastBan' = ban(chat, users[idx], raw1, raw2err)
         /\ raw2err => Len(lastBan'.requests) > 1
         /\ err' = lastBan'.result
    /\ kicked' = Append(kicked, users[idx])
    /\ idx' = idx + 1
    /\ pcKick' = LoopAfterBan(err')
    /\ wake' = IF pcKick' = "sleep" THEN now + Interval ELSE wake
    /\ UNCHANGED << now, alive, chat, duration, store, recordVars,
                    since, users, goneAtStart >>

\* the range loop is over: time.Sleep(interval); the locals of this
\* iteration of the outer loop are dead
KickSleep ==
    /\ alive
    /\ pcKick = "loop"
    /\ idx > Len(users)
    /\ pcKick' = "sleep"
    /\ wake' = now + Interval
    /\ users' = << >>
    /\ idx' = 1
    /\ err' = "nil"
    /\ kicked' = << >>
    /\ lastBan' = NoBan
    /\ goneAtStart' = {}
    /\ since' = 0
    /\ UNCHANGED << now, alive, chat, duration, store, recordVars >>

\* a WatchKick that returns when its Sleep is over instead of looping
KickWakeMutReturn ==
    /\ alive
    /\ pcKick \in {"skip", "sleep"}
    /\ now >= wake
    /\ pcKick' = "returned"
    /\ wake' = 0
    /\ UNCHANGED << now, alive, chat, duration, store, recordVars, since,
                    users, idx, err, kicked, lastBan, goneAtStart >>

\* time.Sleep(interval) returns
KickWake ==
    /\ alive
    /\ pcKick \in {"skip", "sleep"}
    /\ now >= wake
    /\ pcKick' = "count"
    /\ wake' = 0
    /\ UNCHANGED << now, alive, chat, duration, store, recordVars, since,
                    users, idx, err, kicked, lastBan, goneAtStart >>

Next ==
    \/ Tick
    \/ RecordSetCommands
    \/ \E update \in Updates : RecordHandle(update)
    \/ KickCount
    \/ KickFind
    \/ KickBan
    \/ KickSleep
    \/ KickWake

Spec == Init /\ [][Next]_vars

\* ------------------------------------------------- the clock without end
\* Beyond MaxTime the clock is kept relative: instead of now growing, every
\* timestamp held (last_message of the documents, the end of the Sleep)
\* moves one unit into the past.  A timestamp that is already MaxTime units
\* old stays there: with Duration <= MaxTime - 1 it is older than the
\* threshold of every comparison the code makes, now and ever after.
Earlier(t) == IF t > 0 THEN t - 1 ELSE 0

RECURSIVE Aged(_)
Aged(docs) ==
    IF docs = << >> THEN << >>
    ELSE << Doc(Head(docs).UserID, Earlier(Head(docs).LastMessage)) >>
         \o Aged(Tail(docs))

Roll ==
    /\ alive
    /\ now = MaxTime
    /\ store' = Aged(store)
    /\ wake' = Earlier(wake)
    /\ UNCHANGED << now, alive, chat, duration, recordVars, pcKick, since,
                    users, idx, err, kicked, lastBan, goneAtStart >>

LiveNext == Next \/ Roll

\* the clock advances, and the WatchKick goroutine is scheduled whenever it
\* can take a step; nothing is assumed about the arrival of updates
LiveSpec ==
    /\ Init /\ [][LiveNext]_vars
    /\ WF_vars(Tick) /\ WF_vars(Roll)
    /\ WF_vars(KickCount) /\ WF_vars(KickFind) /\ WF_vars(KickBan)
    /\ WF_vars(KickSleep) /\ WF_vars(KickWake)

\* ================================================================ claims
\* records of member m in the collection
Records(s, m) == { s[i] : i \in Matching(s, m) }

\* user ids of the documents older than the threshold, told from the
\* collection directly
StaleIds(s, threshold) ==
    { s[i].UserID : i \in { j \in DOMAIN s : s[j].LastMessage < threshold } }

\* this step is an invocation of ban for user u
BanStep(u) == kicked' = Append(kicked, u)

\* C1: in a cycle whose active-count query returns zero, no ban is invoked
\* whatever the collection holds: the count step goes straight into the
\* Sleep of the skipped cycle without issuing a request, and from that Sleep
\* the scanner does nothing but start the next cycle.
C1_ZeroCountSkipsCycle ==
    [][ /\ (pcKick = "count" /\ pcKick' # "count" /\ since' = 0)
            => (pcKick' = "skip" /\ kicked' = kicked /\ lastBan' = lastBan)
        /\ pcKick = "skip"
            => (/\ pcKick' \in {"skip", "count"}
                /\ kicked' = kicked /\ lastBan' = lastBan) ]_vars

\* a skipped cycle sleeping while the collection holds a document that was
\* stale when the cycle ran
C1_Witness ==
    /\ pcKick = "skip"
    /\ StaleIds(store, (wake - Interval) - duration) # {}

\* C2: a failed primary request whose payload does not parse, or carries no
\* (or a zero) migrate_to_chat_id, is not followed by a second request, and
\* ban returns the primary request's error.
C2_NoDirectiveReturnsError ==
    ( /\ lastBan.user # Nil
      /\ lastBan.raw1.err
      /\ \/ ~lastBan.raw1.data.valid
         \/ ~lastBan.raw1.data.present
         \/ lastBan.raw1.data.id = 0 )
    => (Len(lastBan.requests) = 1 /\ lastBan.result = BanErr1)

\* C3: a failed primary request whose payload carries a non-zero
\* migrate_to_chat_id X is followed by exactly one further request, for the
\* same user and until_date, against chat X, and ban returns that request's
\* outcome; ban issues one request when the primary one succeeds and never
\* more than two.
C3_RedirectRetriedOnce ==
    lastBan.user # Nil =>
        /\ Len(lastBan.requests) \in {1, 2}
        /\ lastBan.requests[1] = [chat_id |-> FormatInt(chat),
                                  user_id |-> FormatInt(lastBan.user),
                                  until_date |-> Forever]
        /\ ~lastBan.raw1.err => Len(lastBan.requests) = 1
        /\ ( /\ lastBan.raw1.err
             /\ lastBan.raw1.data.valid
             /\ lastBan.raw1.data.present
             /\ lastBan.raw1.data.id # 0 )
           => /\ Len(lastBan.requests) = 2
              /\ lastBan.requests[2] =
                    [lastBan.requests[1] EXCEPT
                        !.chat_id = FormatInt(lastBan.raw1.data.id)]
              /\ lastBan.result = IF lastBan.raw2err THEN BanErr2 ELSE BanNil

\* a ban that was redirected and whose second request failed
C3_Witness ==
    /\ lastBan.user # Nil
    /\ Len(lastBan.requests) = 2
    /\ lastBan.result = BanErr2

\* C4: handling an update that carries a sender and is neither a member-left
\* nor a member-joined message, whatever its text, leaves a record of the
\* sender with last_message equal to the handling time, when no store call
\* fails.
C4_EveryMessageRecorded ==
    [][ \A update \in Updates, sendFails \in BOOLEAN :
            ( /\ Kind(update) = "msg"
              /\ RecordHandleWith(update, FALSE, sendFails) )
            => Doc(update.Sender, now) \in Range(store') ]_vars

\* C5 as stated: a cycle that runs while a member's record is older than the
\* inactivity duration selects that member and invokes ban for it: a cycle
\* is not skipped while a stale record exists, the fetch returns every stale
\* member, and the loop is left only after every fetched member was banned.
C5_StaleMemberBannedInCycle ==
    [][ /\ (pcKick = "count" /\ pcKick' = "skip")
            => StaleIds(store, now - duration) = {}
        /\ (pcKick = "find" /\ pcKick' = "loop")
            => StaleIds(store, now - duration) \subseteq Range(users')
        /\ (pcKick = "loop" /\ pcKick' # "loop")
            => Range(users) \subseteq Range(kicked) ]_vars

\* C5 amended: in a cycle whose count query returned a non-zero count and
\* whose find query succeeded, exactly the members whose record is older
\* than the inactivity duration at the moment of the find query are selected,
\* and the loop is left only after ban was invoked for each of them.
C5_StaleMemberBannedInRunCycle ==
    [][ /\ (pcKick = "find" /\ pcKick' = "loop" /\ err' = "nil")
            => Range(users') = StaleIds(store, now - duration)
        /\ (pcKick = "loop" /\ pcKick' # "loop")
            => Range(users) \subseteq Range(kicked) ]_vars

\* the loop of a cycle is over and its stale member has been banned
C5_Witness ==
    /\ pcKick = "loop"
    /\ idx > Len(users)
    /\ kicked # << >>
    /\ Range(kicked) \subseteq StaleIds(store, now - duration)

\* C6 as stated: once a member-left update of a member has been handled the
\* member has no record, and a cycle that started after it (with no event of
\* the member handled since) invokes no ban for the member.
C6_LeftMemberNeverBanned ==
    [][ /\ \A m \in Members :
              obs'[m] \in {"gone", "leave failed"} => Records(store', m) = {}
        /\ \A u \in Members : BanStep(u) => u \notin goneAtStart ]_vars

\* C6 amended: once a member-left update of a member has been handled whose
\* store.Remove succeeded or found no record, the member has no record, and
\* a cycle that started after it (with no event of the member handled since)
\* invokes no ban for the member.
C6_RemovedMemberNeverBanned ==
    [][ /\ \A m \in Members : obs'[m] = "gone" => Records(store', m) = {}
        /\ \A u \in Members :
              (BanStep(u) /\ u \in goneAtStart) => obs[u] # "gone" ]_vars

\* a cycle that started after a member's record was removed has passed the
\* guard and fetched its candidates
C6_Witness ==
    /\ pcKick = "loop"
    /\ \E m \in Members : m \in goneAtStart /\ obs[m] = "gone"

\* C7: at most one record per member id; and for a member never observed
\* leaving, the record's last_message is the time of the member's most
\* recently handled join or message: handling such an update (no store call
\* failing) leaves exactly one record, stamped with the handling time, and
\* the record changes in no other way.
C7_OneRecordLatestEvent ==
    [][ /\ \A m \in Members : Cardinality(Matching(store', m)) <= 1
        /\ \A update \in Updates, sendFails \in BOOLEAN :
              ( /\ Kind(update) \in {"join", "msg"}
                /\ obs[Subject(update)] = "never"
                /\ RecordHandleWith(update, FALSE, sendFails) )
              => Records(store', Subject(update))
                    = {Doc(Subject(update), now)}
        /\ \A m \in Members :
              (obs'[m] = "never" /\ Records(store', m) # Records(store, m))
              => Records(store', m) = {Doc(m, now)} ]_vars

\* C8: the loop of a cycle invokes ban once for each fetched candidate, in
\* order, whatever the earlier invocations returned: while in the loop the
\* banned users are the candidates before the loop position, a ban step
\* stays in the loop with the same candidates, and the loop is left only
\* when every candidate has been banned.
C8_EveryCandidateBannedOnce ==
    [][ /\ pcKick' = "loop" => kicked' = SubSeq(users', 1, idx' - 1)
        /\ (pcKick = "loop" /\ pcKick' = "loop")
            => (users' = users /\ idx' \in {idx, idx + 1})
        /\ (pcKick = "loop" /\ pcKick' # "loop") => kicked = users ]_vars

\* two candidates, both banned, the cycle's last ban having failed
C8_Witness ==
    /\ pcKick = "loop"
    /\ Len(users) = 2
    /\ kicked = users
    /\ lastBan.result # BanNil

\* C9: a failed store query of a cycle has ended the process.
C9_QueryFailureIsFatal == err = ErrQuery => ~alive

\* C10: a store failure while handling an update ends neither goroutine.
\* The process is ended only by a step of bot.SetCommands or of the count
\* query, a step that touches neither the collection nor what was observed
\* of the updates; Record never leaves its loop; the step in which a
\* store.Remove fails leaves the process alive and the scanner where it
\* was; and as long as the process lives, Record can handle a further
\* message of any member, which stamps that member's record.
C10_StoreFailureKeepsLoops ==
    /\ [][ /\ (alive /\ ~alive') =>
               ( /\ pcRecord = "setcommands" \/ pcKick = "count"
                 /\ store' = store /\ obs' = obs /\ replied' = replied )
           /\ (pcRecord = "range") => (pcRecord' = "range")
           /\ \A m \in Members :
                 (obs'[m] = "leave failed" /\ obs[m] # "leave failed") =>
                     ( alive' /\ pcKick' = pcKick /\ users' = users
                       /\ kicked' = kicked ) ]_vars
    /\ []( (alive /\ pcRecord = "range") =>
              (\A m \in Members :
                  ENABLED ( /\ RecordHandleWith(Upd(TRUE, "hi", Nil, Nil, m),
                                                FALSE, FALSE)
                            /\ Doc(m, now) \in Range(store') )) )

\* after a failed store.Remove for one member (its record is still there),
\* the other member's update has been recorded
C10_Witness ==
    /\ alive
    /\ pcRecord = "range"
    /\ \E m \in Members, n \in Members :
          /\ m # n
          /\ obs[m] = "leave failed"
          /\ Records(store, m) # {}
          /\ \E d \in Records(store, m), e \in Records(store, n) :
                e.LastMessage > d.LastMessage

\* C11: a failed store.Remove of a member-left update, or a failed
\* store.Upsert of a join or of a message, is logged by Record before the
\* next update is handled: after the step that handled it, the log holds
\* the error handle returned.
C11_StoreFailureLogged ==
    [][ \A update \in Updates :
            ( /\ Kind(update) \in {"left", "join", "msg"}
              /\ ~IsCommand(update)
              /\ RecordHandleWith(update, TRUE, FALSE) )
            => logged' \in {ErrRemove, ErrUpdate} ]_vars

\* C12: handling a member-left update of a member that has no record is a
\* no-op and not an error: whenever Record can handle an update, handling
\* such an update (the store call not failing otherwise) leaves the
\* collection as it is and returns nil.
C12_AbsentLeftIsNoError ==
    (alive /\ pcRecord = "range") =>
        \A update \in Updates :
            (Kind(update) = "left" /\ Records(store, update.UserLeft) = {})
            => handle(store, now, update, FALSE, FALSE) = Result(store, ErrNil)

\* C13: the guard counts the records with last_message >= threshold: the
\* count a cycle takes is the number of records that find would not return
\* as stale for the same threshold, and a cycle is not skipped while some
\* record's last_message equals the threshold.
C13_GuardCountsFromThreshold ==
    [][ (alive' /\ pcKick = "count" /\ pcKick' # "count") =>
            /\ since' = Len(store)
                           - Len(FindStale(store, Threshold(now, duration)))
            /\ (\E d \in Range(store) :
                    d.LastMessage = Threshold(now, duration))
               => pcKick' # "skip" ]_vars

\* C14: the queries and the bans of a cycle are not atomic with respect to
\* Record.  A step of Record that changes the collection leaves the cycle
\* where it is, with the count and the candidates it has; while a cycle is
\* between its count and its last ban, Record can remove the record of any
\* member and stamp the record of any member; the find query is taken
\* whatever the collection holds by then; and the loop bans the candidate
\* at its position whatever has become of that candidate's record.
C14_CycleNotAtomic ==
    /\ [][ /\ store' # store =>
                ( /\ pcRecord = "range"
                  /\ pcKick' = pcKick /\ since' = since /\ users' = users
                  /\ idx' = idx /\ kicked' = kicked )
           /\ (pcKick = "loop" /\ idx' = idx + 1) =>
                 BanStep(users[idx]) ]_vars
    /\ []( (alive /\ pcKick = "find") => ENABLED KickFind )
    /\ []( (alive /\ pcKick = "loop" /\ idx <= Len(users)) =>
              ENABLED (KickBan /\ BanStep(users[idx])) )
    /\ []( (alive /\ pcRecord = "range" /\ pcKick \in {"find", "loop"}) =>
              \A m \in Members :
                 /\ Records(store, m) # {} =>
                       ENABLED ( /\ RecordHandleWith(Upd(TRUE, "", m, Nil, m),
                                                     FALSE, FALSE)
                                 /\ Records(store', m) = {} )
                 /\ ENABLED ( /\ RecordHandleWith(Upd(TRUE, "", Nil, m, m),
                                                   FALSE, FALSE)
                             /\ Doc(m, now) \in Range(store') ) )

\* a cycle is about to ban a candidate whose record was removed after the
\* find query, the collection holding no record newer than the threshold
C14_Witness ==
    /\ alive
    /\ pcKick = "loop"
    /\ idx <= Len(users)
    /\ Records(store, users[idx]) = {}
    /\ Count(store, Threshold(now, duration)) = 0

\* C15: nothing of a migration is retained.  No step changes watcher.chat,
\* which stays the configured TELEGRAM_CHAT; the primary request of every
\* ban invocation targets that chat id, in particular the invocation that
\* follows one that was redirected to a migrated chat id.
C15_MigrationNotRemembered ==
    /\ [][ /\ chat' = chat
           /\ \A u \in Members :
                 BanStep(u) =>
                     lastBan'.requests[1] = [chat_id |-> FormatInt(TelegramChat),
                                             user_id |-> FormatInt(u),
                                             until_date |-> Forever] ]_vars
    /\ [](chat = TelegramChat)

\* two bans in one cycle: the first was redirected to a migrated chat, the
\* next candidate is about to be banned with watcher.chat as configured
C15_Witness ==
    /\ alive
    /\ pcKick = "loop"
    /\ Len(kicked) = 1
    /\ idx <= Len(users)
    /\ Len(lastBan.requests) = 2
    /\ lastBan.requests[2].chat_id # FormatInt(TelegramChat)
    /\ chat = TelegramChat

\* C16: handling an update without message, or a message that has no
\* sender, no member-left and no member-joined payload, leaves the
\* collection unchanged and returns nil, whatever the calls it makes return.
C16_NoSenderIsIgnored ==
    (alive /\ pcRecord = "range") =>
        \A update \in Updates, storeFails \in BOOLEAN, sendFails \in BOOLEAN :
            ( /\ Kind(update) = "none"
              /\ storeFails => CallsStore(update)
              /\ sendFails => (IsCommand(update) /\ ~storeFails) )
            => LET r == handle(store, now, update, storeFails, sendFails)
               IN  r.store = store /\ r.err = ErrNil

\* member m has a record older than the inactivity duration
StaleIn(m) == m \in StaleIds(store, Threshold(now, duration))

C19_OnlyFetchedStaleBanned ==
    [][ /\ (pcKick = "find" /\ pcKick' = "loop") =>
              \A i \in DOMAIN users' :
                 \E d \in Range(store) :
                    /\ d.UserID = users'[i]
                    /\ d.LastMessage < now - duration
        /\ (pcKick = "loop" /\ pcKick' = "loop") => users' = users
        /\ pcKick' # "loop" => users' = << >>
        /\ kicked' # kicked =>
              \/ kicked' = << >>
              \/ /\ pcKick = "loop" /\ idx \in DOMAIN users
                 /\ BanStep(users[idx]) ]_vars

\* one of two fetched candidates has been banned; by now its record is
\* gone or no longer stale
C19_Witness ==
    /\ pcKick = "loop"
    /\ Len(users) = 2
    /\ Len(kicked) = 1
    /\ kicked[1] = users[1]
    /\ ~StaleIn(kicked[1])

====
